---- MODULE Spec2Model ----
(***************************************************************************)
(* Model of the webview-side IDE messaging layer (gui util "ide"):         *)
(* _postToIde, postToIde, respondToIde, ideRequest, ideStreamRequest.      *)
(*                                                                         *)
(* One step of the model is one macrotask of the single-threaded event     *)
(* loop: a call made by application code, a window "message" event, a      *)
(* timer callback, an "abort" event of a cancel signal, or a consumer      *)
(* pull that resumes the stream generator until its next suspension.       *)
(*                                                                         *)
(* JavaScript values are modelled as records: an object is the record of   *)
(* its fields, undefined is Undefined, a string used as a value is         *)
(* Str(s).  The stream buffer and the yielded chunks are strings.          *)
(***************************************************************************)
EXTENDS Integers, Sequences, FiniteSets

\* ---- bounds of the model ------------------------------------------------
MaxSlots == 2          \* ideRequest / ideStreamRequest calls (Slots)
MaxEvents == 3         \* Spec: events from outside (calls, inbound, ...)
MaxFlowEvents == 4     \* SpecFlow: events from outside

\* ---- program constants --------------------------------------------------
MaxRetryAttempt == 5   \* postToIde: retry while attempt < 5
BackoffUnitMs == 1000  \* postToIde: Math.pow(2, attempt) * 1000

\* ---- value universe -----------------------------------------------------
Undefined == [undefined |-> TRUE]
Str(s) == [string |-> s]
NoId == 0              \* messageId parameter omitted (undefined)
HostId == -1           \* an identifier generated by the host, not by uuidv4
Slots == 1..MaxSlots
MessageTypes == {"echo", "llmStreamChat"}
RequestData == {[msg |-> "hi"]}
EchoData == {[msg |-> "hi"], [msg |-> "bye"]}
Fragment(s) == [content |-> s]
Completion == [done |-> TRUE, value |-> "done"]
CompletionAgain == [done |-> TRUE, value |-> "again"]
Payloads ==
  {Fragment("a"), Fragment("bc"), Fragment(""), Completion, CompletionAgain,
   [msg |-> "hi"]}

VARIABLES
  vscode,              \* typeof vscode !== "undefined"
  ide,                 \* localStorage.getItem("ide")
  postIntellijMessage, \* window.postIntellijMessage !== undefined
  envChanges,          \* number of environment changes so far
  nextUuid,            \* the next value uuidv4() returns
  nPosts,              \* number of top-level postToIde calls so far
  sent,                \* envelopes handed to a send primitive, in order
  timers,              \* pending retry timers of postToIde
  console,             \* diagnostics written so far
  escaped,             \* functions whose caller saw an exception
  listeners,           \* slots whose "message" handler is registered
  nInbound,            \* number of inbound "message" events so far
  arrived,             \* per slot: payloads of the events bearing its id
  kind,                \* per slot: "free", "unary" or "stream"
  messageId,           \* per slot: the identifier generated for the call
  resolved,            \* per unary slot: values passed to resolve()
  buffer,              \* per stream slot: let buffer
  index,               \* per stream slot: let index
  done,                \* per stream slot: let done
  returnVal,           \* per stream slot: let returnVal
  pc,                  \* per stream slot: where the generator is suspended
  yielded,             \* per stream slot: chunks handed to the consumer
  result,              \* per stream slot: the generator's return value
  cancelToken,         \* per stream slot: "none", "idle" or "aborted"
  args,                \* per stream slot: the call's messageType and data
  fired,               \* per stream slot: the state its signal fired in
  abortListeners,      \* slots whose "abort" listener is registered
  nCalls               \* calls made into this layer so far

vars == <<vscode, ide, postIntellijMessage, envChanges, nextUuid, nPosts,
          sent, timers, console, escaped, listeners, nInbound, arrived, kind, messageId,
          resolved, buffer, index, done, returnVal, pc, yielded, result,
          cancelToken, args, fired, abortListeners, nCalls>>

\* ---- pure helpers -------------------------------------------------------
RECURSIVE Pow2(_)
Pow2(n) == IF n = 0 THEN 1 ELSE 2 * Pow2(n - 1)

\* variant: a delay that grows linearly with the attempt
BackoffDelayLinear(attempt) == (attempt + 1) * BackoffUnitMs

\* Math.pow(2, attempt) * 1000
BackoffDelay(attempt) == Pow2(attempt) * BackoffUnitMs

\* variant: the slice restarts at the beginning of the buffer
SliceWhole(buf, idx) == buf

\* buffer.slice(index)
Slice(buf, idx) == SubSeq(buf, idx + 1, Len(buf))

\* String(v) as used by `buffer += v`
JsString(v) == IF "string" \in DOMAIN v THEN v.string ELSE "undefined"

\* event.data.data.content
ContentOf(data) == IF "content" \in DOMAIN data THEN Str(data.content) ELSE Undefined

\* truthiness of event.data.data.done
IsDone(data) == "done" \in DOMAIN data /\ data.done

RECURSIVE Concat(_)
Concat(chunks) == IF chunks = <<>> THEN "" ELSE Head(chunks) \o Concat(Tail(chunks))

\* ---- sending ------------------------------------------------------------
\* The part of the state a send reads and writes; threw tells whether the
\* call ended by throwing to its caller.
SendState ==
  [uuid |-> nextUuid, sent |-> sent, timers |-> timers, console |-> console,
   threw |-> FALSE]

\* One envelope handed to the send primitive `via`.  The fields post,
\* attempt and delays are bookkeeping: which top-level postToIde call the
\* envelope belongs to, the attempt that delivered it and the retry delays
\* scheduled before it.
Deliver(S, via, messageType, data, id, g) ==
  [S EXCEPT !.uuid = IF id = NoId THEN @ + 1 ELSE @,
            !.sent = Append(@, [via |-> via, messageType |-> messageType,
                                data |-> data,
                                messageId |-> IF id = NoId THEN S.uuid ELSE id,
                                post |-> g.post, attempt |-> g.attempt,
                                delays |-> g.delays])]

\* variant: the branch without the jetbrains marker throws as well
_postToIdeThrowsWithoutMarker(S, messageType, data, id, g) ==
  IF ~vscode
    THEN IF ide = "jetbrains" /\ postIntellijMessage
           THEN Deliver(S, "postIntellijMessage", messageType, data, id, g)
           ELSE [S EXCEPT !.console = @ \cup
                   {[level |-> "log",
                     text |-> IF ide = "jetbrains"
                                THEN "postIntellijMessage is undefined"
                                ELSE "vscode is undefined"]},
                          !.threw = TRUE]
    ELSE Deliver(S, "postMessage", messageType, data, id, g)

\* variant: the bridge is preferred to the channel handle when both exist
_postToIdeBridgeFirst(S, messageType, data, id, g) ==
  IF ide = "jetbrains" /\ postIntellijMessage
    THEN Deliver(S, "postIntellijMessage", messageType, data, id, g)
    ELSE IF vscode
           THEN Deliver(S, "postMessage", messageType, data, id, g)
           ELSE IF ide = "jetbrains"
                  THEN [S EXCEPT !.console = @ \cup
                          {[level |-> "log",
                            text |-> "postIntellijMessage is undefined"]},
                                 !.threw = TRUE]
                  ELSE [S EXCEPT !.console = @ \cup
                          {[level |-> "log", text |-> "vscode is undefined"]}]

_postToIde(S, messageType, data, id, g) ==
  IF ~vscode
    THEN IF ide = "jetbrains"
           THEN IF ~postIntellijMessage
                  THEN [S EXCEPT !.console = @ \cup
                          {[level |-> "log",
                            text |-> "postIntellijMessage is undefined"]},
                                 !.threw = TRUE]
                  ELSE Deliver(S, "postIntellijMessage", messageType, data, id, g)
           ELSE [S EXCEPT !.console = @ \cup
                   {[level |-> "log", text |-> "vscode is undefined"]}]
    ELSE Deliver(S, "postMessage", messageType, data, id, g)

\* variant: the last failure is thrown again after it is logged
postToIdeRethrows(S, messageType, data, id, attempt, g) ==
  LET R == _postToIde(S, messageType, data, id,
                      [post |-> g.post, attempt |-> attempt, delays |-> g.delays])
  IN IF R.threw
       THEN IF attempt < MaxRetryAttempt
              THEN [R EXCEPT
                      !.threw = FALSE,
                      !.console = @ \cup {[level |-> "log", text |-> "Retrying"]},
                      !.timers = @ \cup
                        {[messageType |-> messageType, data |-> data,
                          messageId |-> id, attempt |-> attempt + 1,
                          delay |-> BackoffDelay(attempt), post |-> g.post,
                          delays |-> Append(g.delays, BackoffDelay(attempt))]}]
              ELSE [R EXCEPT
                      !.threw = TRUE,
                      !.console = @ \cup {[level |-> "error",
                                           text |-> "Max attempts reached",
                                           post |-> g.post, attempt |-> attempt]}]
       ELSE R

\* variant: the next attempt is scheduled after a successful attempt too
postToIdeAlwaysRetries(S, messageType, data, id, attempt, g) ==
  LET R == _postToIde(S, messageType, data, id,
                      [post |-> g.post, attempt |-> attempt, delays |-> g.delays])
  IN IF attempt < MaxRetryAttempt
       THEN [R EXCEPT
               !.threw = FALSE,
               !.timers = @ \cup
                 {[messageType |-> messageType, data |-> data,
                   messageId |-> id, attempt |-> attempt + 1,
                   delay |-> BackoffDelay(attempt), post |-> g.post,
                   delays |-> Append(g.delays, BackoffDelay(attempt))]}]
       ELSE [R EXCEPT !.threw = FALSE]

\* variant: the retry is scheduled without the correlation identifier
postToIdeRetryDropsId(S, messageType, data, id, attempt, g) ==
  LET R == _postToIde(S, messageType, data, id,
                      [post |-> g.post, attempt |-> attempt, delays |-> g.delays])
  IN IF R.threw
       THEN IF attempt < MaxRetryAttempt
              THEN [R EXCEPT
                      !.threw = FALSE,
                      !.console = @ \cup {[level |-> "log", text |-> "Retrying"]},
                      !.timers = @ \cup
                        {[messageType |-> messageType, data |-> data,
                          messageId |-> NoId, attempt |-> attempt + 1,
                          delay |-> BackoffDelay(attempt), post |-> g.post,
                          delays |-> Append(g.delays, BackoffDelay(attempt))]}]
              ELSE [R EXCEPT
                      !.threw = FALSE,
                      !.console = @ \cup {[level |-> "error",
                                           text |-> "Max attempts reached",
                                           post |-> g.post, attempt |-> attempt]}]
       ELSE R

postToIde(S, messageType, data, id, attempt, g) ==
  LET R == _postToIde(S, messageType, data, id,
                      [post |-> g.post, attempt |-> attempt, delays |-> g.delays])
  IN IF R.threw
       THEN IF attempt < MaxRetryAttempt
              THEN [R EXCEPT
                      !.threw = FALSE,
                      !.console = @ \cup {[level |-> "log", text |-> "Retrying"]},
                      !.timers = @ \cup
                        {[messageType |-> messageType, data |-> data,
                          messageId |-> id, attempt |-> attempt + 1,
                          delay |-> BackoffDelay(attempt), post |-> g.post,
                          delays |-> Append(g.delays, BackoffDelay(attempt))]}]
              ELSE [R EXCEPT
                      !.threw = FALSE,
                      !.console = @ \cup {[level |-> "error",
                                           text |-> "Max attempts reached",
                                           post |-> g.post, attempt |-> attempt]}]
       ELSE R

\* bookkeeping of a new top-level postToIde call
NewPost == [post |-> nPosts + 1, delays |-> <<>>]

Commit(R, fn) ==
  /\ nextUuid' = R.uuid
  /\ sent' = R.sent
  /\ timers' = R.timers
  /\ console' = R.console
  /\ escaped' = IF R.threw THEN escaped \cup {fn} ELSE escaped

\* ---- initial state ------------------------------------------------------
Init ==
  /\ vscode \in BOOLEAN
  /\ ide \in {"jetbrains", "none"}
  /\ postIntellijMessage \in BOOLEAN
  /\ envChanges = 0
  /\ nextUuid = 1
  /\ nPosts = 0
  /\ sent = <<>>
  /\ timers = {}
  /\ console = {}
  /\ escaped = {}
  /\ listeners = {}
  /\ nInbound = 0
  /\ arrived = [c \in Slots |-> <<>>]
  /\ kind = [c \in Slots |-> "free"]
  /\ messageId = [c \in Slots |-> NoId]
  /\ resolved = [c \in Slots |-> <<>>]
  /\ buffer = [c \in Slots |-> ""]
  /\ index = [c \in Slots |-> 0]
  /\ done = [c \in Slots |-> FALSE]
  /\ returnVal = [c \in Slots |-> Undefined]
  /\ pc = [c \in Slots |-> "none"]
  /\ yielded = [c \in Slots |-> <<>>]
  /\ result = [c \in Slots |-> Undefined]
  /\ cancelToken = [c \in Slots |-> "none"]
  /\ args = [c \in Slots |-> Undefined]
  /\ fired = [c \in Slots |-> Undefined]
  /\ abortListeners = {}
  /\ nCalls = 0

\* the slot the next call uses
FreeSlots == {c \in Slots : kind[c] = "free"}
NextSlot == CHOOSE c \in FreeSlots : \A d \in FreeSlots : c <= d

\* ---- the hosting environment --------------------------------------------
\* The host installs or removes one of the three things _postToIde looks
\* at: the channel handle, the marker in localStorage, the bridge function.
EnvChange ==
  /\ envChanges' = envChanges + 1
  /\ \/ /\ vscode' = ~vscode
        /\ UNCHANGED <<ide, postIntellijMessage>>
     \/ /\ ide' = IF ide = "jetbrains" THEN "none" ELSE "jetbrains"
        /\ UNCHANGED <<vscode, postIntellijMessage>>
     \/ /\ postIntellijMessage' = ~postIntellijMessage
        /\ UNCHANGED <<vscode, ide>>
  /\ UNCHANGED <<nextUuid, nPosts, sent, timers, console, escaped, listeners,
                 nInbound, arrived, kind, messageId, resolved, buffer, index,
                 done, returnVal, pc, yielded, result, cancelToken, args,
                 fired, abortListeners, nCalls>>

\* the selector throws: handle absent, marker set, bridge missing
TransportFails == ~vscode /\ ide = "jetbrains" /\ ~postIntellijMessage

\* ---- fire-and-forget sends and replies ----------------------------------
\* errorPopup, logDevData, deleteModel, addOpenAIKey: postToIde without id
Notify(messageType, data) ==
  /\ nCalls' = nCalls + 1
  /\ nPosts' = nPosts + 1
  /\ Commit(postToIde(SendState, messageType, data, NoId, 0, NewPost), "postToIde")
  /\ UNCHANGED <<vscode, ide, postIntellijMessage, envChanges, listeners,
                 nInbound, arrived, kind, messageId, resolved, buffer, index,
                 done, returnVal, pc, yielded, result, cancelToken, args,
                 fired, abortListeners>>

\* variant: the reply goes through the retrying dispatcher
respondToIdeWithRetry(messageType, data, id) ==
  /\ nCalls' = nCalls + 1
  /\ Commit(postToIde(SendState, messageType, data, id, 0,
                      [post |-> 0, delays |-> <<>>]),
            "respondToIde")
  /\ UNCHANGED <<vscode, ide, postIntellijMessage, envChanges, nPosts,
                 listeners, nInbound, arrived, kind, messageId, resolved,
                 buffer, index, done, returnVal, pc, yielded, result,
                 cancelToken, args, fired, abortListeners>>

\* variant: the reply is sent without the host's identifier
respondToIdeFreshId(messageType, data, id) ==
  /\ nCalls' = nCalls + 1
  /\ Commit(_postToIde(SendState, messageType, data, NoId,
                       [post |-> 0, attempt |-> 0, delays |-> <<>>]),
            "respondToIde")
  /\ UNCHANGED <<vscode, ide, postIntellijMessage, envChanges, nPosts,
                 listeners, nInbound, arrived, kind, messageId, resolved,
                 buffer, index, done, returnVal, pc, yielded, result,
                 cancelToken, args, fired, abortListeners>>

respondToIde(messageType, data, id) ==
  /\ nCalls' = nCalls + 1
  /\ Commit(_postToIde(SendState, messageType, data, id,
                       [post |-> 0, attempt |-> 0, delays |-> <<>>]),
            "respondToIde")
  /\ UNCHANGED <<vscode, ide, postIntellijMessage, envChanges, nPosts,
                 listeners, nInbound, arrived, kind, messageId, resolved,
                 buffer, index, done, returnVal, pc, yielded, result,
                 cancelToken, args, fired, abortListeners>>

\* variant: giving up after the last attempt also removes the call's handler
RetryTimerDeregisters(t) ==
  /\ t \in timers
  /\ \A u \in timers : u.post < t.post => u.attempt > t.attempt
  /\ Commit(postToIde([SendState EXCEPT !.timers = @ \ {t}], t.messageType,
                      t.data, t.messageId, t.attempt,
                      [post |-> t.post, delays |-> t.delays]),
            "postToIde")
  /\ listeners' = IF t.attempt = MaxRetryAttempt /\ TransportFails
                    THEN {c \in listeners : messageId[c] # t.messageId}
                    ELSE listeners
  /\ UNCHANGED <<vscode, ide, postIntellijMessage, envChanges, nPosts,
                 nInbound, arrived, kind, messageId, resolved,
                 buffer, index, done, returnVal, pc, yielded, result,
                 cancelToken, args, fired, abortListeners, nCalls>>

\* variant: a retry reuses the outcome of the first attempt (no transport)
\* instead of running the selector again
RetryTimerCachedDecision(t) ==
  /\ t \in timers
  /\ \A u \in timers : u.post < t.post => u.attempt > t.attempt
  /\ timers' = (timers \ {t}) \cup
                 IF t.attempt < MaxRetryAttempt
                   THEN {[t EXCEPT !.attempt = @ + 1,
                                   !.delay = BackoffDelay(t.attempt),
                                   !.delays = Append(@, BackoffDelay(t.attempt))]}
                   ELSE {}
  /\ console' = console \cup
                  IF t.attempt < MaxRetryAttempt
                    THEN {[level |-> "log", text |-> "Retrying"]}
                    ELSE {[level |-> "error", text |-> "Max attempts reached",
                           post |-> t.post, attempt |-> t.attempt]}
  /\ UNCHANGED <<vscode, ide, postIntellijMessage, envChanges, nextUuid, nPosts,
                 sent, escaped, listeners, nInbound, arrived, kind, messageId,
                 resolved, buffer, index, done, returnVal, pc, yielded, result,
                 cancelToken, args, fired, abortListeners, nCalls>>

\* The callback postToIde passes to setTimeout.  Timers run in the order of
\* their due times: a send that started earlier has made each of its attempts
\* before a later send makes the attempt of the same number (the delays
\* before attempt k are the same for both), so the timer of an older send
\* whose attempt number is not higher runs first.
RetryTimer(t) ==
  /\ t \in timers
  /\ \A u \in timers : u.post < t.post => u.attempt > t.attempt
  /\ Commit(postToIde([SendState EXCEPT !.timers = @ \ {t}], t.messageType,
                      t.data, t.messageId, t.attempt,
                      [post |-> t.post, delays |-> t.delays]),
            "postToIde")
  /\ UNCHANGED <<vscode, ide, postIntellijMessage, envChanges, nPosts,
                 listeners, nInbound, arrived, kind, messageId, resolved,
                 buffer, index, done, returnVal, pc, yielded, result,
                 cancelToken, args, fired, abortListeners, nCalls>>

\* ---- unary calls ---------------------------------------------------------
\* ideRequest runs to the end of the Promise executor in one step: uuidv4,
\* addEventListener, postToIde.
ideRequest(messageType, data) ==
  /\ FreeSlots # {}
  /\ nCalls' = nCalls + 1
  /\ LET c == NextSlot
         id == nextUuid
     IN /\ kind' = [kind EXCEPT ![c] = "unary"]
        /\ messageId' = [messageId EXCEPT ![c] = id]
        /\ listeners' = listeners \cup {c}
        /\ nPosts' = nPosts + 1
        /\ Commit(postToIde([SendState EXCEPT !.uuid = id + 1], messageType,
                            data, id, 0, NewPost),
                  "ideRequest")
  /\ UNCHANGED <<vscode, ide, postIntellijMessage, envChanges, nInbound,
                 arrived, resolved, buffer, index, done, returnVal, pc,
                 yielded, result, cancelToken, args, fired, abortListeners>>

\* ---- stream calls --------------------------------------------------------
\* Calling an async generator function only creates the generator object;
\* the body runs when the consumer pulls.
ideStreamRequest(messageType, data, token) ==
  /\ FreeSlots # {}
  /\ nCalls' = nCalls + 1
  /\ LET c == NextSlot
     IN /\ kind' = [kind EXCEPT ![c] = "stream"]
        /\ pc' = [pc EXCEPT ![c] = "created"]
        /\ args' = [args EXCEPT ![c] = [messageType |-> messageType, data |-> data]]
        /\ cancelToken' = [cancelToken EXCEPT ![c] = token]
  /\ UNCHANGED <<vscode, ide, postIntellijMessage, envChanges, nextUuid,
                 nPosts, sent, timers, console, escaped, listeners, nInbound,
                 arrived, messageId, resolved, buffer, index, done, returnVal,
                 yielded, result, fired, abortListeners>>

\* variant: the first step of the generator sends the request but does not
\* yet register the "message" handler
GenStartRegistersLate(c) ==
  /\ kind[c] = "stream" /\ pc[c] = "created"
  /\ LET id == nextUuid
     IN /\ messageId' = [messageId EXCEPT ![c] = id]
        /\ nPosts' = nPosts + 1
        /\ Commit(postToIde([SendState EXCEPT !.uuid = id + 1],
                            args[c].messageType, args[c].data, id, 0, NewPost),
                  "ideStreamRequest")
  /\ buffer' = [buffer EXCEPT ![c] = ""]
  /\ index' = [index EXCEPT ![c] = 0]
  /\ done' = [done EXCEPT ![c] = FALSE]
  /\ returnVal' = [returnVal EXCEPT ![c] = Undefined]
  /\ abortListeners' = IF cancelToken[c] # "none" THEN abortListeners \cup {c}
                       ELSE abortListeners
  /\ pc' = [pc EXCEPT ![c] = "sleeping"]
  /\ UNCHANGED <<vscode, ide, postIntellijMessage, envChanges, listeners,
                 nInbound, arrived, kind, resolved, yielded, result,
                 cancelToken, args, fired, nCalls>>

\* The consumer's first next(): the body runs from uuidv4 to the first
\* `await new Promise(setTimeout 50)` (buffer is empty, done is false).
GenStart(c) ==
  /\ kind[c] = "stream" /\ pc[c] = "created"
  /\ LET id == nextUuid
     IN /\ messageId' = [messageId EXCEPT ![c] = id]
        /\ nPosts' = nPosts + 1
        /\ Commit(postToIde([SendState EXCEPT !.uuid = id + 1],
                            args[c].messageType, args[c].data, id, 0, NewPost),
                  "ideStreamRequest")
  /\ buffer' = [buffer EXCEPT ![c] = ""]
  /\ index' = [index EXCEPT ![c] = 0]
  /\ done' = [done EXCEPT ![c] = FALSE]
  /\ returnVal' = [returnVal EXCEPT ![c] = Undefined]
  /\ listeners' = listeners \cup {c}
  /\ abortListeners' = IF cancelToken[c] # "none" THEN abortListeners \cup {c}
                       ELSE abortListeners
  /\ pc' = [pc EXCEPT ![c] = "sleeping"]
  /\ UNCHANGED <<vscode, ide, postIntellijMessage, envChanges, nInbound,
                 arrived, kind, resolved, yielded, result, cancelToken, args,
                 fired, nCalls>>

\* variant: the flush after the loop yields without testing the length
PollTickFlushesAlways(c) ==
  /\ kind[c] = "stream" /\ pc[c] = "sleeping"
  /\ IF done[c] \/ (buffer[c] # "" /\ Len(buffer[c]) > index[c])
       THEN /\ index' = [index EXCEPT ![c] = Len(buffer[c])]
            /\ yielded' = [yielded EXCEPT ![c] = Append(@, Slice(buffer[c], index[c]))]
            /\ pc' = [pc EXCEPT ![c] = IF done[c] THEN "yieldFinal" ELSE "yieldLoop"]
            /\ UNCHANGED result
       ELSE /\ pc' = [pc EXCEPT ![c] = IF done[c] THEN "returned" ELSE "sleeping"]
            /\ result' = [result EXCEPT ![c] = IF done[c] THEN returnVal[c] ELSE @]
            /\ UNCHANGED <<index, yielded>>
  /\ UNCHANGED <<vscode, ide, postIntellijMessage, envChanges, nextUuid,
                 nPosts, sent, timers, console, escaped, listeners, nInbound,
                 arrived, kind, messageId, resolved, buffer, done, returnVal,
                 cancelToken, args, fired, abortListeners, nCalls>>

\* variant: the generator returns as soon as it sees done, without the flush
PollTickNoFinalFlush(c) ==
  /\ kind[c] = "stream" /\ pc[c] = "sleeping"
  /\ IF ~done[c] /\ buffer[c] # "" /\ Len(buffer[c]) > index[c]
       THEN /\ index' = [index EXCEPT ![c] = Len(buffer[c])]
            /\ yielded' = [yielded EXCEPT ![c] = Append(@, Slice(buffer[c], index[c]))]
            /\ pc' = [pc EXCEPT ![c] = "yieldLoop"]
            /\ UNCHANGED result
       ELSE /\ pc' = [pc EXCEPT ![c] = IF done[c] THEN "returned" ELSE "sleeping"]
            /\ result' = [result EXCEPT ![c] = IF done[c] THEN returnVal[c] ELSE @]
            /\ UNCHANGED <<index, yielded>>
  /\ UNCHANGED <<vscode, ide, postIntellijMessage, envChanges, nextUuid,
                 nPosts, sent, timers, console, escaped, listeners, nInbound,
                 arrived, kind, messageId, resolved, buffer, done, returnVal,
                 cancelToken, args, fired, abortListeners, nCalls>>

\* variant: the index is not advanced when a chunk is yielded
PollTickKeepsIndex(c) ==
  /\ kind[c] = "stream" /\ pc[c] = "sleeping"
  /\ IF buffer[c] # "" /\ Len(buffer[c]) > index[c]
       THEN /\ index' = index
            /\ yielded' = [yielded EXCEPT ![c] = Append(@, Slice(buffer[c], index[c]))]
            /\ pc' = [pc EXCEPT ![c] = IF done[c] THEN "yieldFinal" ELSE "yieldLoop"]
            /\ UNCHANGED result
       ELSE /\ pc' = [pc EXCEPT ![c] = IF done[c] THEN "returned" ELSE "sleeping"]
            /\ result' = [result EXCEPT ![c] = IF done[c] THEN returnVal[c] ELSE @]
            /\ UNCHANGED <<index, yielded>>
  /\ UNCHANGED <<vscode, ide, postIntellijMessage, envChanges, nextUuid,
                 nPosts, sent, timers, console, escaped, listeners, nInbound,
                 arrived, kind, messageId, resolved, buffer, done, returnVal,
                 cancelToken, args, fired, abortListeners, nCalls>>

\* The 50 ms timer resolves: the generator re-tests `while (!done)`.
PollTick(c) ==
  /\ kind[c] = "stream" /\ pc[c] = "sleeping"
  /\ IF buffer[c] # "" /\ Len(buffer[c]) > index[c]
       THEN /\ index' = [index EXCEPT ![c] = Len(buffer[c])]
            /\ yielded' = [yielded EXCEPT ![c] = Append(@, Slice(buffer[c], index[c]))]
            /\ pc' = [pc EXCEPT ![c] = IF done[c] THEN "yieldFinal" ELSE "yieldLoop"]
            /\ UNCHANGED result
       ELSE /\ pc' = [pc EXCEPT ![c] = IF done[c] THEN "returned" ELSE "sleeping"]
            /\ result' = [result EXCEPT ![c] = IF done[c] THEN returnVal[c] ELSE @]
            /\ UNCHANGED <<index, yielded>>
  /\ UNCHANGED <<vscode, ide, postIntellijMessage, envChanges, nextUuid,
                 nPosts, sent, timers, console, escaped, listeners, nInbound,
                 arrived, kind, messageId, resolved, buffer, done, returnVal,
                 cancelToken, args, fired, abortListeners, nCalls>>

\* The consumer's next() while the generator is suspended at a yield.
GenResume(c) ==
  /\ kind[c] = "stream" /\ pc[c] \in {"yieldLoop", "yieldFinal"}
  /\ pc' = [pc EXCEPT ![c] = IF pc[c] = "yieldLoop" THEN "sleeping" ELSE "returned"]
  /\ result' = [result EXCEPT ![c] = IF pc[c] = "yieldFinal" THEN returnVal[c] ELSE @]
  /\ UNCHANGED <<vscode, ide, postIntellijMessage, envChanges, nextUuid,
                 nPosts, sent, timers, console, escaped, listeners, nInbound,
                 arrived, kind, messageId, resolved, buffer, index, done,
                 returnVal, yielded, cancelToken, args, fired, abortListeners,
                 nCalls>>

\* variant: the abort envelope gets an identifier of its own
AbortFreshId(c) ==
  /\ kind[c] = "stream" /\ cancelToken[c] = "idle"
  /\ cancelToken' = [cancelToken EXCEPT ![c] = "aborted"]
  /\ fired' = [fired EXCEPT ![c] =
                 [seen |-> Len(arrived[c]), listening |-> c \in abortListeners,
                  done |-> done[c],
                  reachable |-> vscode \/ (ide = "jetbrains" /\ postIntellijMessage)]]
  /\ IF c \in abortListeners
       THEN /\ nPosts' = nPosts + 1
            /\ Commit(postToIde(SendState, "abort", Undefined, NoId, 0,
                                NewPost),
                      "abortListener")
       ELSE UNCHANGED <<nextUuid, nPosts, sent, timers, console, escaped>>
  /\ UNCHANGED <<vscode, ide, postIntellijMessage, envChanges, listeners,
                 nInbound, arrived, kind, messageId, resolved, buffer, index,
                 done, returnVal, pc, yielded, result, args, abortListeners,
                 nCalls>>

\* variant: the abort listener also removes the message handler
AbortDetaches(c) ==
  /\ kind[c] = "stream" /\ cancelToken[c] = "idle"
  /\ listeners' = listeners \ {c}
  /\ cancelToken' = [cancelToken EXCEPT ![c] = "aborted"]
  /\ fired' = [fired EXCEPT ![c] =
                 [seen |-> Len(arrived[c]), listening |-> c \in abortListeners,
                  done |-> done[c],
                  reachable |-> vscode \/ (ide = "jetbrains" /\ postIntellijMessage)]]
  /\ IF c \in abortListeners
       THEN /\ nPosts' = nPosts + 1
            /\ Commit(postToIde(SendState, "abort", Undefined, messageId[c], 0,
                                NewPost),
                      "abortListener")
       ELSE UNCHANGED <<nextUuid, nPosts, sent, timers, console, escaped>>
  /\ UNCHANGED <<vscode, ide, postIntellijMessage, envChanges, nInbound,
                 arrived, kind, messageId, resolved, buffer, index, done,
                 returnVal, pc, yielded, result, args, abortListeners, nCalls>>

\* The caller's AbortSignal fires its "abort" event (at most once).
Abort(c) ==
  /\ kind[c] = "stream" /\ cancelToken[c] = "idle"
  /\ cancelToken' = [cancelToken EXCEPT ![c] = "aborted"]
  /\ fired' = [fired EXCEPT ![c] =
                 [seen |-> Len(arrived[c]), listening |-> c \in abortListeners,
                  done |-> done[c],
                  reachable |-> vscode \/ (ide = "jetbrains" /\ postIntellijMessage)]]
  /\ IF c \in abortListeners
       THEN /\ nPosts' = nPosts + 1
            /\ Commit(postToIde(SendState, "abort", Undefined, messageId[c], 0,
                                NewPost),
                      "abortListener")
       ELSE UNCHANGED <<nextUuid, nPosts, sent, timers, console, escaped>>
  /\ UNCHANGED <<vscode, ide, postIntellijMessage, envChanges, listeners,
                 nInbound, arrived, kind, messageId, resolved, buffer, index,
                 done, returnVal, pc, yielded, result, args, abortListeners,
                 nCalls>>

\* ---- inbound envelopes ---------------------------------------------------
\* variant: the handler stays registered after it resolved the call
UnaryHandlerStays(c, id, data) ==
  IF id = messageId[c]
    THEN [listening |-> TRUE, resolved |-> Append(resolved[c], data)]
    ELSE [listening |-> TRUE, resolved |-> resolved[c]]

\* variant: the handler does not compare the identifier
UnaryHandlerAnyId(c, id, data) ==
  [listening |-> FALSE, resolved |-> Append(resolved[c], data)]

\* variant: the handler removes itself on any envelope, matching or not
UnaryHandlerRemovesOnAny(c, id, data) ==
  IF id = messageId[c]
    THEN [listening |-> FALSE, resolved |-> Append(resolved[c], data)]
    ELSE [listening |-> FALSE, resolved |-> resolved[c]]

\* the handler ideRequest registers
UnaryHandler(c, id, data) ==
  IF id = messageId[c]
    THEN [listening |-> FALSE, resolved |-> Append(resolved[c], data)]
    ELSE [listening |-> TRUE, resolved |-> resolved[c]]

\* variant: a fragment replaces the buffer instead of extending it
StreamHandlerOverwrites(c, id, data) ==
  IF id = messageId[c]
    THEN IF IsDone(data)
           THEN [listening |-> FALSE, done |-> TRUE, returnVal |-> data,
                 buffer |-> buffer[c]]
           ELSE [listening |-> TRUE, done |-> done[c], returnVal |-> returnVal[c],
                 buffer |-> JsString(ContentOf(data))]
    ELSE [listening |-> TRUE, done |-> done[c], returnVal |-> returnVal[c],
          buffer |-> buffer[c]]

\* variant: the terminal value is the payload's value field
StreamHandlerReturnsValue(c, id, data) ==
  IF id = messageId[c]
    THEN IF IsDone(data)
           THEN [listening |-> FALSE, done |-> TRUE, returnVal |-> Str(data.value),
                 buffer |-> buffer[c]]
           ELSE [listening |-> TRUE, done |-> done[c], returnVal |-> returnVal[c],
                 buffer |-> buffer[c] \o JsString(ContentOf(data))]
    ELSE [listening |-> TRUE, done |-> done[c], returnVal |-> returnVal[c],
          buffer |-> buffer[c]]

\* variant: the handler stays registered after the completion envelope
StreamHandlerStays(c, id, data) ==
  IF id = messageId[c]
    THEN IF IsDone(data)
           THEN [listening |-> TRUE, done |-> TRUE, returnVal |-> data,
                 buffer |-> buffer[c]]
           ELSE [listening |-> TRUE, done |-> done[c], returnVal |-> returnVal[c],
                 buffer |-> buffer[c] \o JsString(ContentOf(data))]
    ELSE [listening |-> TRUE, done |-> done[c], returnVal |-> returnVal[c],
          buffer |-> buffer[c]]

\* the handler ideStreamRequest registers
StreamHandler(c, id, data) ==
  IF id = messageId[c]
    THEN IF IsDone(data)
           THEN [listening |-> FALSE, done |-> TRUE, returnVal |-> data,
                 buffer |-> buffer[c]]
           ELSE [listening |-> TRUE, done |-> done[c], returnVal |-> returnVal[c],
                 buffer |-> buffer[c] \o JsString(ContentOf(data))]
    ELSE [listening |-> TRUE, done |-> done[c], returnVal |-> returnVal[c],
          buffer |-> buffer[c]]

\* A window "message" event with event.data = {messageId, messageType, data}:
\* every registered handler runs on it; no handler reads the messageType.
Receive(id, messageType, data) ==
  /\ nInbound' = nInbound + 1
  /\ arrived' = [c \in Slots |->
                   IF messageId[c] = id THEN Append(arrived[c], data)
                   ELSE arrived[c]]
  /\ LET U(c) == UnaryHandler(c, id, data)
         T(c) == StreamHandler(c, id, data)
         on(c) == c \in listeners
     IN /\ listeners' = {c \in listeners :
                           IF kind[c] = "unary" THEN U(c).listening
                           ELSE T(c).listening}
        /\ resolved' = [c \in Slots |->
                          IF on(c) /\ kind[c] = "unary" THEN U(c).resolved
                          ELSE resolved[c]]
        /\ done' = [c \in Slots |->
                      IF on(c) /\ kind[c] = "stream" THEN T(c).done ELSE done[c]]
        /\ returnVal' = [c \in Slots |->
                           IF on(c) /\ kind[c] = "stream" THEN T(c).returnVal
                           ELSE returnVal[c]]
        /\ buffer' = [c \in Slots |->
                        IF on(c) /\ kind[c] = "stream" THEN T(c).buffer
                        ELSE buffer[c]]
  /\ UNCHANGED <<vscode, ide, postIntellijMessage, envChanges, nextUuid,
                 nPosts, sent, timers, console, escaped, kind, messageId,
                 index, pc, yielded, result, cancelToken, args, fired,
                 abortListeners, nCalls>>

\* identifiers an inbound envelope can carry: the ones generated so far
KnownIds == 1..(nextUuid - 1)

\* ---- specifications ----------------------------------------------------
\* events from outside the layer that have happened so far
nEvents ==
  nCalls + nInbound + envChanges
    + Cardinality({c \in Slots : cancelToken[c] = "aborted"})

\* Spec: every operation, at most MaxEvents events from outside.
Next ==
  \/ nEvents < MaxEvents /\ EnvChange
  \/ nEvents < MaxEvents /\ \E d \in RequestData : Notify("errorPopup", d)
  \/ nEvents < MaxEvents /\ \E d \in RequestData : respondToIde("reply", d, HostId)
  \/ nEvents < MaxEvents /\ \E d \in RequestData : ideRequest("echo", d)
  \/ nEvents < MaxEvents /\ \E d \in RequestData, k \in {"none", "idle"} :
                              ideStreamRequest("llmStreamChat", d, k)
  \/ nEvents < MaxEvents /\ \E c \in Slots : Abort(c)
  \/ nEvents < MaxEvents /\ \E id \in KnownIds, d \in {Fragment("a"), Completion} :
                              Receive(id, "llmStreamChat", d)
  \/ \E t \in timers : RetryTimer(t)
  \/ \E c \in Slots : GenStart(c)
  \/ \E c \in Slots : PollTick(c)
  \/ \E c \in Slots : GenResume(c)

Spec == Init /\ [][Next]_vars

\* SpecFlow: the calls and their inbound envelopes in the common hosting
\* environment (primary channel handle present, no alternate host), which
\* stays as it is; at most MaxFlowEvents events from outside.
InitFlow == Init /\ vscode /\ ide = "none" /\ ~postIntellijMessage

NextFlow ==
  \/ nEvents < MaxFlowEvents /\ \E m \in MessageTypes, d \in EchoData : ideRequest(m, d)
  \/ nEvents < MaxFlowEvents /\ \E d \in RequestData, k \in {"none", "idle"} :
                                  ideStreamRequest("llmStreamChat", d, k)
  \/ nEvents < MaxFlowEvents /\ \E c \in Slots : Abort(c)
  \/ nEvents < MaxFlowEvents /\ \E id \in KnownIds, m \in MessageTypes,
                                     d \in Payloads : Receive(id, m, d)
  \/ \E c \in Slots : GenStart(c)
  \/ \E c \in Slots : PollTick(c)
  \/ \E c \in Slots : GenResume(c)

SpecFlow == InitFlow /\ [][NextFlow]_vars

\* SpecStream: stream calls only, in the common hosting environment, with
\* the 50 ms poll timer always firing in the end and a consumer that keeps
\* pulling (for await / repeated gen.next()).
NextStream ==
  \/ nEvents < MaxFlowEvents /\ \E d \in RequestData, k \in {"none", "idle"} :
                                  ideStreamRequest("llmStreamChat", d, k)
  \/ nEvents < MaxFlowEvents /\ \E c \in Slots : Abort(c)
  \/ nEvents < MaxFlowEvents /\
       \E id \in KnownIds, d \in {Fragment("a"), Fragment("bc"), Completion} :
         Receive(id, "llmStreamChat", d)
  \/ \E c \in Slots : GenStart(c)
  \/ \E c \in Slots : PollTick(c)
  \/ \E c \in Slots : GenResume(c)

SpecStream ==
  /\ InitFlow /\ [][NextStream]_vars
  /\ \A c \in Slots : WF_vars(PollTick(c)) /\ WF_vars(GenResume(c))

\* ---- vocabulary of the properties ---------------------------------------
Unaries == {c \in Slots : kind[c] = "unary"}
Streams == {c \in Slots : kind[c] = "stream"}

IsFragment(d) == "content" \in DOMAIN d /\ ~IsDone(d)
HasDone(seq) == \E n \in 1..Len(seq) : IsDone(seq[n])
\* position of the first completion envelope
FirstDone(seq) ==
  CHOOSE n \in 1..Len(seq) : IsDone(seq[n]) /\ \A k \in 1..(n - 1) : ~IsDone(seq[k])
\* what arrived before the first completion envelope
BeforeDone(seq) == IF HasDone(seq) THEN SubSeq(seq, 1, FirstDone(seq) - 1) ELSE seq
\* fragments followed by a completion envelope
FragmentsThenCompletion(seq) ==
  HasDone(seq) /\ \A k \in 1..Len(BeforeDone(seq)) : IsFragment(seq[k])

RECURSIVE ConcatContent(_)
ConcatContent(seq) ==
  IF seq = <<>> THEN "" ELSE Head(seq).content \o ConcatContent(Tail(seq))

\* what `buffer +=` has accumulated from the envelopes seq
RECURSIVE Accumulated(_)
Accumulated(seq) ==
  IF seq = <<>> THEN ""
  ELSE (IF "content" \in DOMAIN Head(seq) THEN Head(seq).content ELSE "undefined")
         \o Accumulated(Tail(seq))

SentAt == 1..Len(sent)
AbortsFor(id) ==
  Cardinality({n \in SentAt : sent[n].messageType = "abort" /\ sent[n].messageId = id})
AbortPending(id) == \E t \in timers : t.messageType = "abort" /\ t.messageId = id
\* the signal fired after the request was issued and before its completion
FiredWhileActive(c) == fired[c] # Undefined /\ fired[c].listening /\ ~fired[c].done

\* no send primitive is reachable
Unreachable == ~vscode /\ ~(ide = "jetbrains" /\ postIntellijMessage)
MaxAttemptsLog(x) == x.level = "error" /\ x.text = "Max attempts reached"

\* ---- C1 ------------------------------------------------------------------
\* C1: after ideRequest, the first inbound envelope bearing the call's
\* identifier resolves the call exactly once with that envelope's data; until
\* then the handler is registered and nothing is resolved; any later envelope
\* with that identifier changes nothing and no handler for the call remains.
C1_UnaryResolvedOnceByFirstMatch ==
  \A c \in Unaries :
    IF arrived[c] = <<>>
      THEN resolved[c] = <<>> /\ c \in listeners
      ELSE resolved[c] = <<arrived[c][1]>> /\ c \notin listeners

C1_Witness ==
  \E c \in Unaries :
    /\ Len(arrived[c]) >= 2
    /\ arrived[c][2] # arrived[c][1]
    /\ resolved[c] = <<arrived[c][1]>>

\* ---- C2 ------------------------------------------------------------------
\* C2: when a stream that received fragments followed by a completion
\* envelope has ended, the concatenation of the yielded chunks is the
\* concatenation of the fragments' content in arrival order and the
\* generator's return value is the completion envelope's data, whatever the
\* interleaving of arrivals, poll ticks and pulls was.
C2_StreamConcatAndReturn ==
  \A c \in Streams :
    (pc[c] = "returned" /\ FragmentsThenCompletion(arrived[c])) =>
      /\ Concat(yielded[c]) = ConcatContent(BeforeDone(arrived[c]))
      /\ result[c] = arrived[c][FirstDone(arrived[c])]

C2_Witness ==
  \E c \in Streams :
    /\ pc[c] = "returned"
    /\ arrived[c] = <<Fragment("bc"), Fragment("a"), Completion>>
    /\ Len(yielded[c]) = 2

\* ---- C3 ------------------------------------------------------------------
\* C3 as stated: a signal that fires after the request was issued and before
\* the completion has, once no retry of the abort send is pending, put
\* exactly one abort envelope with the stream's identifier on the wire.
C3_ExactlyOneAbort ==
  \A c \in Streams :
    (FiredWhileActive(c) /\ ~AbortPending(messageId[c])) =>
      AbortsFor(messageId[c]) = 1

\* C3: a signal that fires after the request was issued (the generator has
\* started and registered its abort listener) and before the completion
\* causes at most one abort envelope, which carries the stream's own
\* identifier; exactly one is sent, in the same step, when a send primitive
\* is reachable at the moment the signal fires, and every abort envelope on
\* the wire bears the identifier of a stream whose signal fired.
C3_AtMostOneAbortWithStreamId ==
  /\ \A c \in Streams :
       FiredWhileActive(c) =>
         /\ AbortsFor(messageId[c]) <= 1
         /\ fired[c].reachable => AbortsFor(messageId[c]) = 1
  /\ \A n \in SentAt :
       sent[n].messageType = "abort" =>
         \E c \in Streams :
           /\ fired[c] # Undefined /\ fired[c].listening
           /\ sent[n].messageId = messageId[c]

C3_Witness ==
  \E c \in Streams :
    /\ FiredWhileActive(c)
    /\ fired[c].reachable
    /\ AbortsFor(messageId[c]) = 1

\* ---- C4 ------------------------------------------------------------------
\* C4: after the signal fired the stream goes on as before: no exception
\* reaches the consumer, the loop keeps polling while no completion was
\* observed, every fragment that arrives is still appended to the buffer and
\* what was yielded is a prefix of it, and the sequence has ended only if a
\* completion envelope with the stream's identifier was observed.
C4_CancelDoesNotEndStream ==
  \A c \in Streams :
    fired[c] # Undefined /\ pc[c] # "created" =>
      /\ "abortListener" \notin escaped
      /\ buffer[c] = Accumulated(BeforeDone(arrived[c]))
      /\ Concat(yielded[c]) = SubSeq(buffer[c], 1, index[c])
      /\ done[c] = HasDone(arrived[c])
      /\ ~done[c] => pc[c] \in {"sleeping", "yieldLoop"}
      /\ pc[c] = "returned" => done[c]

C4_Witness ==
  \E c \in Streams :
    /\ FiredWhileActive(c)
    /\ fired[c].seen = 0
    /\ pc[c] = "returned"
    /\ yielded[c] # <<>>

\* ---- C5 ------------------------------------------------------------------
ExpectedDelays == <<1000, 2000, 4000, 8000, 16000>>

\* C5: the delay scheduled after failed attempt n is 2^n seconds: an envelope
\* delivered at attempt k was preceded by exactly the delays 1s, 2s, 4s, ...
\* of attempts 0..k-1 in that order and no retry of its call is pending any
\* more, and every pending retry was preceded by exactly those delays too.
C5_BackoffDelays ==
  /\ \A n \in SentAt :
       /\ sent[n].delays = SubSeq(ExpectedDelays, 1, sent[n].attempt)
       /\ \A t \in timers : t.post # sent[n].post
  /\ \A t \in timers :
       /\ t.delay = ExpectedDelays[t.attempt]
       /\ t.delays = SubSeq(ExpectedDelays, 1, t.attempt)

C5_Witness ==
  \E n \in SentAt :
    sent[n].attempt = 4 /\ sent[n].delays = <<1000, 2000, 4000, 8000>>

\* ---- C6 ------------------------------------------------------------------
\* C6: a postToIde call makes at most 5 attempts, numbered 0 through 4: no
\* attempt 5 is ever scheduled or executed.
C6_AtMostFiveAttempts ==
  /\ \A t \in timers : t.attempt <= 4
  /\ \A n \in SentAt : sent[n].attempt <= 4

\* ---- C7 ------------------------------------------------------------------
\* C7: no exception leaves postToIde, whether called directly, from
\* ideRequest, from ideStreamRequest, from the abort listener or from a retry
\* timer, also when every attempt failed; the final failure is only logged.
C7_NoExceptionEscapesPostToIde ==
  /\ escaped \cap {"postToIde", "ideRequest", "ideStreamRequest", "abortListener"} = {}
  /\ \A c \in Unaries : Len(resolved[c]) <= Len(arrived[c])

C7_Witness ==
  \E x \in console, c \in Unaries :
    /\ MaxAttemptsLog(x)
    /\ timers = {}
    /\ sent = <<>>
    /\ resolved[c] = <<>>

\* ---- C8 ------------------------------------------------------------------
\* C8 as stated: fragments "a" then "bc" then the completion give exactly
\* the two yields "a" and "bc".
C8_OneYieldPerFragment ==
  \A c \in Streams :
    (pc[c] = "returned"
       /\ arrived[c] = <<Fragment("a"), Fragment("bc"), Completion>>) =>
      yielded[c] = <<"a", "bc">>

\* C8: fragments "a" then "bc" then the completion give yields whose
\* concatenation is "abc" and whose boundaries are those of the poll ticks:
\* either "a" then "bc", or the single chunk "abc" when both fragments
\* arrived between two ticks.
C8_YieldsFollowPollTicks ==
  \A c \in Streams :
    (pc[c] = "returned"
       /\ arrived[c] = <<Fragment("a"), Fragment("bc"), Completion>>) =>
      yielded[c] \in {<<"a", "bc">>, <<"abc">>}

C8_Witness ==
  \E c \in Streams :
    /\ pc[c] = "returned"
    /\ arrived[c] = <<Fragment("a"), Fragment("bc"), Completion>>
    /\ yielded[c] = <<"abc">>

\* ---- C9 ------------------------------------------------------------------
\* C9 as stated: with the completion payload {done: true, value: "done"} the
\* return value is the string "done".
C9_ReturnsValueField ==
  \A c \in Streams :
    (pc[c] = "returned" /\ arrived[c][FirstDone(arrived[c])] = Completion) =>
      result[c] = Str(Completion.value)

\* C9: with the completion payload {done: true, value: "done"} the return
\* value is that whole payload object.
C9_ReturnsWholePayload ==
  \A c \in Streams :
    (pc[c] = "returned" /\ arrived[c][FirstDone(arrived[c])] = Completion) =>
      result[c] = [done |-> TRUE, value |-> "done"]

C9_Witness ==
  \E c \in Streams :
    /\ pc[c] = "returned"
    /\ arrived[c] = <<Completion>>
    /\ result[c].value = "done"

\* ---- C10 -----------------------------------------------------------------
\* a step in which postToIde makes an attempt: a new call or a retry timer
DispatchStep == nPosts' = nPosts + 1 \/ timers \ timers' # {}
\* the failure drove the retry sequence: a retry was scheduled, or the last
\* attempt gave up with the diagnostic
RetryDriven ==
  \/ timers' \ timers # {}
  \/ \E t \in timers \ timers' :
       [level |-> "error", text |-> "Max attempts reached", post |-> t.post,
        attempt |-> MaxRetryAttempt] \in console'

\* C10 as stated: with no send primitive reachable every attempt sends
\* nothing and fails with an error that drives the retry sequence.
C10_UnreachableAlwaysRetries ==
  [][(Unreachable /\ DispatchStep) => (sent' = sent /\ RetryDriven)]_vars

\* C10: with no send primitive reachable no envelope is sent; when the
\* alternate-host marker is set and the bridge is missing the selector logs
\* and throws and the dispatcher catches the error and drives the retry
\* sequence; when the marker is absent the selector only logs and returns
\* normally, so no retry is scheduled and no error is raised.
C10_UnreachableRetriesOnlyWithMarker ==
  [][(Unreachable /\ DispatchStep) =>
       /\ sent' = sent
       /\ escaped' = escaped
       /\ IF ide = "jetbrains"
            THEN /\ RetryDriven
                 /\ [level |-> "log", text |-> "postIntellijMessage is undefined"]
                      \in console'
            ELSE /\ timers' \ timers = {}
                 /\ [level |-> "log", text |-> "vscode is undefined"] \in console']_vars

C10_Witness ==
  /\ Unreachable /\ ide # "jetbrains" /\ envChanges = 0
  /\ nPosts = 1 /\ nCalls = 1
  /\ [level |-> "log", text |-> "vscode is undefined"] \in console
  /\ sent = <<>> /\ timers = {}

\* ---- C11 -----------------------------------------------------------------
\* a step in which respondToIde runs
RespondStep == nCalls' = nCalls + 1 /\ nPosts' = nPosts /\ kind' = kind
\* a step in which the selector _postToIde runs
SendStep == DispatchStep \/ RespondStep
\* the step handed exactly one more envelope to the primitive `via`
SentVia(via) ==
  /\ Len(sent') = Len(sent) + 1
  /\ SubSeq(sent', 1, Len(sent)) = sent
  /\ sent'[Len(sent')].via = via

\* C11: every run of the selector picks the primitive by a fixed priority:
\* with the channel handle present exactly one envelope goes to postMessage,
\* whatever the marker and the bridge are; with the handle absent, the marker
\* set and the bridge installed exactly one envelope goes to the bridge; in
\* every other case nothing is sent; no step uses both primitives and no step
\* other than a run of the selector sends anything.
C11_TransportPriority ==
  [][/\ SendStep =>
          /\ vscode => SentVia("postMessage")
          /\ (~vscode /\ ide = "jetbrains" /\ postIntellijMessage) =>
               SentVia("postIntellijMessage")
          /\ Unreachable => sent' = sent
     /\ ~SendStep => sent' = sent]_vars

C11_Witness ==
  /\ Len(sent) = 2
  /\ sent[1].via = "postMessage"
  /\ sent[2].via = "postIntellijMessage"
  /\ envChanges = 1 /\ ~vscode /\ ide = "jetbrains" /\ postIntellijMessage

\* ---- C12 -----------------------------------------------------------------
\* C12 as stated: every send whose transport fails, the reply of
\* respondToIde included, is retried and lets no error reach its caller.
C12_AllSendsRetried ==
  [][(TransportFails /\ SendStep) => (RetryDriven /\ escaped' = escaped)]_vars

\* C12: a send made through postToIde (fire-and-forget, the initial send of
\* a unary call, the initial send of a stream call, the abort notification,
\* a retry) whose transport fails is retried or given up with the diagnostic
\* and lets no error reach its caller; the reply of respondToIde calls the
\* selector directly: a failed reply is attempted once, schedules no retry,
\* sends nothing and throws the selector's error to respondToIde's caller.
C12_AllButRespondRetried ==
  [][/\ (TransportFails /\ DispatchStep) => (RetryDriven /\ escaped' = escaped)
     /\ (TransportFails /\ RespondStep) =>
          /\ timers' = timers
          /\ sent' = sent
          /\ "respondToIde" \in escaped']_vars

C12_Witness ==
  /\ "respondToIde" \in escaped
  /\ \E t \in timers : t.messageType = "errorPopup"
  /\ envChanges = 0

\* ---- C13 -----------------------------------------------------------------
\* a step in which an inbound envelope bearing the identifier of slot c
\* arrives
ArrivesFor(c) == arrived'[c] # arrived[c]

\* C13: an inbound envelope bearing the identifier of a stream that has
\* already observed its completion envelope changes nothing of that stream:
\* not the buffer, the index, the completion flag, the terminal value, the
\* chunks yielded, the generator's position or its return value; the handler
\* is gone and stays gone, and no error is raised.
C13_InertAfterCompletion ==
  [][\A c \in Streams :
       (done[c] /\ ArrivesFor(c)) =>
         /\ buffer'[c] = buffer[c]
         /\ index'[c] = index[c]
         /\ done'[c]
         /\ returnVal'[c] = returnVal[c]
         /\ yielded'[c] = yielded[c]
         /\ pc'[c] = pc[c]
         /\ result'[c] = result[c]
         /\ c \notin listeners /\ c \notin listeners'
         /\ escaped' = escaped]_vars

C13_Witness ==
  \E c \in Streams :
    /\ done[c]
    /\ Len(arrived[c]) >= 3
    /\ IsDone(arrived[c][1])
    /\ \E n \in 2..Len(arrived[c]) : IsFragment(arrived[c][n])
    /\ arrived[c][1] = Completion
    /\ \E n \in 2..Len(arrived[c]) : arrived[c][n] = CompletionAgain
    /\ returnVal[c] = Completion
    /\ buffer[c] = ""

\* ---- C14 -----------------------------------------------------------------
\* a step in which a window "message" event is handled
InboundStep == nInbound' = nInbound + 1
\* the registry entry of slot c is what it was
EntryUnchanged(c) ==
  /\ (c \in listeners') = (c \in listeners)
  /\ resolved'[c] = resolved[c]
  /\ buffer'[c] = buffer[c]
  /\ done'[c] = done[c]
  /\ returnVal'[c] = returnVal[c]
\* the payload of the envelope that arrived for slot c in this step
ArrivedPayload(c) == arrived'[c][Len(arrived'[c])]

\* C14: an inbound envelope, whatever its operation name, bears the
\* identifier of at most one entry; every entry with another identifier is
\* left as it was, and the entry with the equal identifier, if its handler
\* is still registered, is changed by it (a unary call is resolved, a stream
\* gets the completion or the fragment's content, unless that is empty).
C14_MatchByIdentifierOnly ==
  [][InboundStep =>
       /\ Cardinality({c \in Slots : ArrivesFor(c)}) <= 1
       /\ \A c \in Slots : ~ArrivesFor(c) => EntryUnchanged(c)
       /\ \A c \in Slots :
            (ArrivesFor(c) /\ c \in listeners
               /\ ArrivedPayload(c) # Fragment("")) => ~EntryUnchanged(c)]_vars

C14_Witness ==
  \E c \in Unaries, s \in Streams :
    /\ args[s].messageType = "llmStreamChat"
    /\ messageId[s] # NoId /\ messageId[s] < messageId[c]
    /\ arrived[c] # <<>> /\ resolved[c] = <<arrived[c][1]>>
    /\ arrived[s] = <<>> /\ s \in listeners /\ buffer[s] = "" /\ ~done[s]

\* ---- C15 -----------------------------------------------------------------
\* the request of slot c was issued
Issued(c) == messageId[c] # NoId
\* envelopes and pending retries of the request of slot c (not of its abort)
RequestSent(c) ==
  \E n \in SentAt : sent[n].messageId = messageId[c] /\ sent[n].messageType # "abort"
RequestPending(c) ==
  \E t \in timers : t.messageId = messageId[c] /\ t.messageType # "abort"
\* the initial send of slot c was given up: nothing was delivered and no
\* retry is left
GaveUp(c) == Issued(c) /\ ~RequestSent(c) /\ ~RequestPending(c)

\* C15: when the initial send of a call was given up and no envelope with
\* the call's identifier has arrived, then in every later state the call's
\* handler is still registered, a unary call is neither resolved nor
\* rejected, and a stream has yielded nothing, has not ended and is still
\* polling; the given-up send is never made again.
C15_GivenUpCallStaysPending ==
  \A c \in Slots :
    (GaveUp(c) /\ arrived[c] = <<>>) =>
      /\ c \in listeners
      /\ kind[c] = "unary" => (resolved[c] = <<>> /\ "ideRequest" \notin escaped)
      /\ kind[c] = "stream" =>
           /\ yielded[c] = <<>> /\ buffer[c] = "" /\ ~done[c]
           /\ pc[c] = "sleeping" /\ result[c] = Undefined
           /\ "ideStreamRequest" \notin escaped

C15_Witness ==
  \E c \in Unaries, s \in Streams :
    /\ GaveUp(c) /\ GaveUp(s)
    /\ timers = {} /\ sent = <<>> /\ envChanges = 0
    /\ \A p \in {1, 2} :
         [level |-> "error", text |-> "Max attempts reached", post |-> p,
          attempt |-> MaxRetryAttempt] \in console
    /\ c \in listeners /\ s \in listeners /\ pc[s] = "sleeping"

\* ---- C16 -----------------------------------------------------------------
\* C16: no chunk a stream yields is the empty string; a stream that has
\* ended after a completion preceded by no content yielded no chunk and
\* returned the completion's data; and once the completion is observed with
\* the whole buffer already consumed, no further chunk is yielded.
C16_NoEmptyChunk ==
  /\ [](\A c \in Streams :
          /\ \A n \in 1..Len(yielded[c]) : yielded[c][n] # ""
          /\ (pc[c] = "returned" /\ Accumulated(BeforeDone(arrived[c])) = "") =>
               /\ yielded[c] = <<>>
               /\ result[c] = arrived[c][FirstDone(arrived[c])])
  /\ [][\A c \in Streams :
          (done[c] /\ index[c] = Len(buffer[c])) => yielded'[c] = yielded[c]]_vars

C16_Witness ==
  \E c \in Streams :
    /\ pc[c] = "returned"
    /\ arrived[c] = <<Fragment(""), Completion>>
    /\ yielded[c] = <<>>
    /\ result[c] = Completion

\* ---- C17 -----------------------------------------------------------------
\* C17: an attempt of postToIde that does not fail schedules no further
\* attempt; so the envelopes of one postToIde call number at most one, no
\* retry of a call is pending once its envelope was delivered, and a call
\* never has two retries pending.
C17_SuccessEndsRetries ==
  /\ [](/\ \A n, m \in SentAt :
             (sent[n].post # 0 /\ sent[n].post = sent[m].post) => n = m
        /\ \A n \in SentAt : \A t \in timers :
             sent[n].post # 0 => t.post # sent[n].post
        /\ \A t, u \in timers : t.post = u.post => t = u)
  /\ [][(DispatchStep /\ ~TransportFails) => timers' \ timers = {}]_vars

C17_Witness ==
  /\ nPosts = 1 /\ timers = {} /\ Len(sent) = 1
  /\ sent[1].post = 1 /\ sent[1].attempt >= 2
  /\ envChanges = 1 /\ nCalls = 1

\* ---- C18 -----------------------------------------------------------------
\* the envelope sent in this step is the one retry t was scheduled for
DeliveredBy(t) ==
  LET e == sent'[Len(sent')]
  IN /\ e.post = t.post /\ e.attempt = t.attempt
     /\ e.messageType = t.messageType /\ e.data = t.data
     /\ t.messageId # NoId => e.messageId = t.messageId

C19_StreamEventuallyEnds ==
  /\ \A c \in Slots : (kind[c] = "stream" /\ done[c]) ~> (pc[c] = "returned")
  /\ [](\A c \in Streams :
          pc[c] = "returned" =>
            /\ done[c]
            /\ Concat(yielded[c]) = Accumulated(BeforeDone(arrived[c]))
            /\ result[c] = arrived[c][FirstDone(arrived[c])])
  /\ [][\A c \in Streams :
          (done[c] /\ yielded'[c] # yielded[c]) =>
            /\ pc'[c] = "yieldFinal"
            /\ Concat(yielded'[c]) = buffer[c]]_vars

C19_Witness ==
  \E c \in Streams :
    /\ pc[c] = "yieldFinal"
    /\ yielded[c] = <<"a", "bc">>
    /\ done[c]

\* ---- C20 -----------------------------------------------------------------
\* C20: the registered "message" handlers are exactly those of the unary
\* calls for which no envelope with their identifier has arrived and of the
\* started streams for which no completion envelope with their identifier
\* has arrived; so when every call made was answered or completed, no
\* handler is registered.
C20_ListenersAreOpenCalls ==
  listeners = {c \in Unaries : arrived[c] = <<>>}
                \cup {c \in Streams : Issued(c) /\ ~HasDone(arrived[c])}

C20_Witness ==
  \E c \in Unaries, s \in Streams :
    /\ arrived[c] # <<>>
    /\ HasDone(arrived[s])
    /\ FreeSlots = {}
    /\ listeners = {}

\* ---- C21 -----------------------------------------------------------------
\* C21: a respondToIde("reply", data, id) with a send primitive reachable
\* hands exactly one envelope to that primitive, carrying "reply", the data
\* and the identifier id the host supplied; it generates no identifier,
\* schedules nothing, registers no handler and creates no call or stream.
C21_RespondSendsOneEnvelope ==
  [][RespondStep =>
       /\ ~Unreachable =>
            /\ Len(sent') = Len(sent) + 1
            /\ SubSeq(sent', 1, Len(sent)) = sent
            /\ sent'[Len(sent')].messageType = "reply"
            /\ sent'[Len(sent')].data \in RequestData
            /\ sent'[Len(sent')].messageId = HostId
       /\ nextUuid' = nextUuid
       /\ timers' = timers
       /\ listeners' = listeners /\ abortListeners' = abortListeners
       /\ kind' = kind /\ messageId' = messageId /\ pc' = pc]_vars

C21_Witness ==
  /\ nCalls = 1 /\ Len(sent) = 1
  /\ sent[1].messageType = "reply" /\ sent[1].messageId = HostId
  /\ sent[1].via = "postIntellijMessage"
  /\ listeners = {} /\ FreeSlots = Slots /\ nextUuid = 1

\* ---- C22 -----------------------------------------------------------------
\* the operation name the call of slot c was made with
CallType(c) == IF kind[c] = "unary" THEN "echo" ELSE args[c].messageType
\* x, an envelope sent or a retry pending, belongs to the request of a call
\* whose handler waits for x's identifier and has the call's arguments
RequestOfACall(x) ==
  \E c \in Slots :
    /\ Issued(c) /\ messageId[c] = x.messageId
    /\ x.messageType = CallType(c)
    /\ x.data \in RequestData
    /\ (c \in listeners \/ arrived[c] # <<>>)

\* C22: a retry is scheduled with the operation name, the payload and the
\* identifier of the attempt that failed, and the envelope a retry delivers
\* carries them; so every envelope sent and every retry pending for a unary
\* or stream call has the call's operation name and payload and the
\* identifier the call's handler compares with, and every abort has the
\* identifier of its stream.
C22_RetriesKeepArguments ==
  /\ [](\A x \in {sent[n] : n \in SentAt} \cup timers :
          /\ x.messageType \in {"echo", "llmStreamChat"} => RequestOfACall(x)
          /\ x.messageType = "abort" =>
               (x.data = Undefined
                  /\ \E c \in Streams : Issued(c) /\ messageId[c] = x.messageId)
          /\ x.messageType = "errorPopup" => x.data \in RequestData)
  /\ [][\A t \in timers \ timers' :
          /\ \A u \in timers' \ timers :
               /\ u.messageType = t.messageType /\ u.data = t.data
               /\ u.messageId = t.messageId /\ u.post = t.post
               /\ u.attempt = t.attempt + 1
          /\ sent' # sent => DeliveredBy(t)]_vars

C22_Witness ==
  \E c \in Unaries, n \in SentAt :
    /\ sent[n].attempt = MaxRetryAttempt
    /\ sent[n].messageType = "echo"
    /\ sent[n].messageId = messageId[c]
    /\ c \in listeners

\* ---- C23 -----------------------------------------------------------------
\* s is a prefix of t
IsPrefix(s, t) == Len(s) <= Len(t) /\ SubSeq(t, 1, Len(s)) = s

\* C23: for every stream, 0 <= index <= length(buffer) and the chunks
\* yielded so far, concatenated, are the first index characters of the
\* buffer; in every step the old buffer is a prefix of the new one, the
\* index does not decrease, and the chunks yielded before stay as they were.
C23_IndexAndBuffer ==
  /\ [](\A c \in Streams :
          /\ 0 <= index[c] /\ index[c] <= Len(buffer[c])
          /\ Concat(yielded[c]) = SubSeq(buffer[c], 1, index[c]))
  /\ [][\A c \in Streams :
          /\ IsPrefix(buffer[c], buffer'[c])
          /\ index[c] <= index'[c]
          /\ IsPrefix(yielded[c], yielded'[c])]_vars

C23_Witness ==
  \E c \in Streams :
    /\ buffer[c] = "abca"
    /\ index[c] = 3
    /\ yielded[c] = <<"a", "bc">>

\* ---- C24 -----------------------------------------------------------------
\* C24: no abort envelope is handed to a send primitive before the request
\* envelope of the same stream: the wire never shows an abort followed by
\* the request bearing the same identifier.
C24_AbortNeverBeforeRequest ==
  \A n, m \in SentAt :
    (n < m /\ sent[n].messageType = "abort") =>
      ~(sent[m].messageId = sent[n].messageId /\ sent[m].messageType # "abort")

\* ---- C25 -----------------------------------------------------------------
\* C25: when the signal of a stream fires after the stream has observed its
\* completion envelope, no abort envelope bearing the stream's identifier is
\* sent and no abort send is left pending.
C25_NoAbortAfterCompletion ==
  \A c \in Streams :
    (fired[c] # Undefined /\ fired[c].done) =>
      (AbortsFor(messageId[c]) = 0 /\ ~AbortPending(messageId[c]))

\* ---- C26 -----------------------------------------------------------------
\* C26: the step that issues the request of a call (generates its
\* identifier and makes attempt 0 of its send) ends with the call's handler
\* registered and before any envelope with that identifier was handled; so
\* every envelope bearing the identifier has been seen by the handler as
\* long as it was registered: a unary call is resolved with the first one,
\* a stream has buffered everything up to its first completion envelope and
\* taken that envelope's data as terminal value.
C26_NoEnvelopeMissed ==
  /\ [][\A c \in Slots :
          (~Issued(c) /\ Issued(c)') =>
            /\ c \in listeners'
            /\ arrived'[c] = <<>>
            /\ nPosts' = nPosts + 1]_vars
  /\ [](\A c \in Slots :
          Issued(c) =>
            /\ kind[c] = "unary" =>
                 resolved[c] = IF arrived[c] = <<>> THEN <<>> ELSE <<arrived[c][1]>>
            /\ kind[c] = "stream" =>
                 /\ buffer[c] = Accumulated(BeforeDone(arrived[c]))
                 /\ done[c] = HasDone(arrived[c])
                 /\ done[c] => returnVal[c] = arrived[c][FirstDone(arrived[c])])

C26_Witness ==
  \E c \in Unaries, s \in Streams :
    /\ resolved[c] = <<[msg |-> "hi"]>>
    /\ arrived[s] = <<Fragment("bc")>>
    /\ pc[s] = "sleeping" /\ yielded[s] = <<>> /\ buffer[s] = "bc"
    /\ \E n \in SentAt : sent[n].messageId = messageId[s]

====
